---- MODULE Spec2Model ----
(***************************************************************************)
(* Multi-user to-do service (src/api.py): credential store, password       *)
(* hashing, signed session tokens, the authorization guard and the         *)
(* owner-scoped task repository.                                           *)
(*                                                                         *)
(* A request is served in steps: one step for each storage call and each   *)
(* reading of the clock, in the order of the code. Between two steps of a  *)
(* request the clock may advance and steps of the requests of other        *)
(* callers may run: the service handles requests in parallel.              *)
(*                                                                         *)
(* Optional values (Python None, an absent claim, an empty response body)  *)
(* are sequences of length 0 or 1: <<>> is "absent", <<v>> is "v".         *)
(* Strings that the code only compares or measures are TLA+ strings;       *)
(* strings it edits (task names) are sequences of characters.              *)
(* Time is counted in minutes.                                             *)
(***************************************************************************)
EXTENDS Integers, Sequences, FiniteSets, TLC

VARIABLES
    users,            \* table "users": set of rows [id, username, password_hash]
    next_user_id,     \* the users.id sequence
    username_unique,  \* whether the deployed schema has UNIQUE(users.username)
    tasks,            \* table "tasks": set of rows
    next_task_id,     \* the tasks.id sequence
    now,              \* the wall clock (UTC, minutes)
    reqs,             \* per caller: the request in flight or answered last
    database,         \* main_dict.py: the dict db, its items in insertion order
    conn,             \* main_db.py: tasks.db, table tasks and its AUTOINCREMENT counter
    issued            \* history: the ids each of the two stores has handed out

vars == <<users, next_user_id, username_unique, tasks, next_task_id, now, reqs,
          database, conn, issued>>

store == <<users, next_user_id, tasks, next_task_id>>

\* The stores of the two terminal programs and their history.
cli == <<database, conn, issued>>

\* The state of the service and its callers.
service == <<store, username_unique, now, reqs>>

\* ------------------------------------------------------------------ bounds

\* Minutes by which one Tick advances the clock.
TickStep == 8
\* Number of Ticks.
MaxTicks == 2
\* Task ids the sequence hands out before create_task is no longer called.
MaxTasks == 2
\* The same, where the guard is under study and one task body is created.
MaxGuardedTasks == 1

\* ------------------------------------------------------- program constants

ACCESS_TOKEN_EXPIRE_MINUTES == 15
UsernameMinLen == 3
UsernameMaxLen == 50
PasswordMinLen == 6
NameMinLen == 1
NameMaxLen == 100
DescriptionMaxLen == 500
PriorityMin == 1

\* ------------------------------------------------------------ input sets

\* "al" is too short for UserCreate; "alice" and "bob" are valid.
Usernames == {"alice", "bob"}
UsernameInputs == Usernames \cup {"al"}
\* "short" is too short for UserCreate.
Passwords == {"secret1", "hunter22"}
PasswordInputs == Passwords \cup {"short"}
\* bcrypt draws a fresh random salt per hash.
Salts == {1, 2}

None == <<>>
Some(v) == <<v>>

Times == {k * TickStep : k \in 0..MaxTicks}

\* ------------------------------------------------------- password hashing

\* bcrypt's digest of a password under a salt: equal digests under one salt
\* mean equal passwords.
bcrypt(password, salt) == <<salt, password>>

get_password_hash(password, salt) ==
    [salt |-> salt, digest |-> bcrypt(password, salt)]

\* A verify that hashes the plaintext under a salt of its own, not the stored one.
verify_password_fresh_salt(plain_password, hashed_password) ==
    bcrypt(plain_password, 0) = hashed_password.digest

verify_password(plain_password, hashed_password) ==
    bcrypt(plain_password, hashed_password.salt) = hashed_password.digest

\* ---------------------------------------------------------------- tokens

\* A token is its payload and whether its signature verifies under SECRET_KEY.
create_access_token(data, t) ==
    [sub |-> data.sub, exp |-> Some(t + ACCESS_TOKEN_EXPIRE_MINUTES), sig |-> TRUE]

\* The tokens a caller presents: every payload (with or without each claim)
\* under a signature that verifies, and the payloads login issues under a
\* signature that does not.
TokenSpace ==
    [sub : {None, Some("")} \cup {Some(u) : u \in Usernames},
     exp : {None} \cup {Some(t + ACCESS_TOKEN_EXPIRE_MINUTES) : t \in Times},
     sig : {TRUE}]
    \cup
    [sub : {Some(u) : u \in Usernames},
     exp : {Some(t + ACCESS_TOKEN_EXPIRE_MINUTES) : t \in Times},
     sig : {FALSE}]


\* ---------------------------------------------------- requests and answers

HTTPException(status_code, detail) ==
    [code |-> status_code, detail |-> detail, data |-> None]

Response(status_code, data) ==
    [code |-> status_code, detail |-> "", data |-> Some(data)]

\* status_code=204: no body.
NoContent == [code |-> 204, detail |-> "", data |-> None]

\* The connections requests arrive over; the requests of different callers
\* are served in parallel.
Callers == {"r1", "r2"}

\* The state of a caller's request: pc is new (nothing sent yet), decoded (the
\* guard has verified the token), authed (the guard has resolved the user and
\* the body has passed validation), selected (the handler's lookup has
\* passed), stamped (the handler has read the clock) or done (answered).
\* user is the row the guard resolved, local the value the handler carries
\* from one step to the next, resp the answer.
NewRequest ==
    [op |-> "none", pc |-> "new", req |-> None, user |-> None, local |-> None,
     resp |-> None]

InFlight(op, pc, req, user, local) ==
    [op |-> op, pc |-> pc, req |-> req, user |-> user, local |-> local,
     resp |-> None]

Done(op, req, user, resp) ==
    [op |-> op, pc |-> "done", req |-> req, user |-> user, local |-> None,
     resp |-> resp]

\* The request r answered with resp by its last step.
Answered(r, resp) == [r EXCEPT !.pc = "done", !.resp = resp]

IdlePcs == {"new", "done"}

\* Caller i has no request in flight: it may send one.
Idle(i) == reqs[i].pc \in IdlePcs

\* Callers that have sent no request yet.
Fresh == {i \in Callers : reqs[i].pc = "new"}

\* The one caller of the specifications in which requests are sent one after
\* another.
Serial == {"r1"}

Tick ==
    /\ now + TickStep <= MaxTicks * TickStep
    /\ now' = now + TickStep
    /\ UNCHANGED <<store, username_unique, cli, reqs>>

\* ---------------------------------------------------- authorization guard

\* jwt.decode with the signature check left out.
jwt_decode_unverified(token, t) ==
    IF token.exp # None /\ token.exp[1] <= t THEN "ExpiredSignatureError"
    ELSE "ok"

\* jwt.decode with the exp check left out.
jwt_decode_no_exp(token, t) ==
    IF ~token.sig THEN "InvalidTokenError" ELSE "ok"

\* jwt.decode: the signature first, then the exp claim.
jwt_decode(token, t) ==
    IF ~token.sig THEN "InvalidTokenError"
    ELSE IF token.exp # None /\ token.exp[1] <= t THEN "ExpiredSignatureError"
    ELSE "ok"

\* The first half of get_current_user (lines 123-131), at time t: the 401 it
\* raises, or absent when the token carries a subject to look up.
token_error(token, t) ==
    LET decoded == jwt_decode(token, t)
    IN  IF decoded = "ExpiredSignatureError"
        THEN Some(HTTPException(401, "Token has expired"))
        ELSE IF decoded = "InvalidTokenError"
        THEN Some(HTTPException(401, "Invalid token"))
        ELSE IF token.sub = None \/ token.sub = Some("")
        THEN Some(HTTPException(401, "Invalid token: missing subject"))
        ELSE None

\* The second half of get_current_user (lines 134-140) for a token with a
\* subject: [err, user], err an HTTPException or absent, user the resolved
\* row or absent. data[0] of a select without ORDER BY is any one of the
\* matching rows.
current_user(token, U) ==
    LET rows == {r \in U : r.username = token.sub[1]}
    IN  IF rows = {}
        THEN {[err |-> Some(HTTPException(401, "User not found")), user |-> None]}
        ELSE {[err |-> None, user |-> Some(r)] : r \in rows}

\* The outcomes of get_current_user when nothing happens between its two
\* halves.
get_current_user(token, U, t) ==
    IF token_error(token, t) # None
    THEN {[err |-> token_error(token, t), user |-> None]}
    ELSE current_user(token, U)

\* ------------------------------------------------------ credential store

UserCreate_valid(username, password) ==
    /\ Len(username) >= UsernameMinLen
    /\ Len(username) <= UsernameMaxLen
    /\ Len(password) >= PasswordMinLen

select_users(U, username) == {r \in U : r.username = username}

\* The insert of register: [ok, users]. Under UNIQUE(username) an insert of
\* a present username raises; without the constraint it adds a second row.
insert_user(U, id, username, hashed_pw, unique) ==
    IF unique /\ select_users(U, username) # {}
    THEN [ok |-> FALSE, users |-> U]
    ELSE [ok |-> TRUE,
          users |-> U \cup {[id |-> id, username |-> username,
                             password_hash |-> hashed_pw]}]

\* A register that writes the new hash over the row of a taken username.
register_select_upsert(i, username, password, salt) ==
    LET hashed_pw == get_password_hash(password, salt)
        existing_user == select_users(users, username)
        req == [username |-> username, password |-> password]
    IN  /\ Idle(i)
        /\ reqs' = [reqs EXCEPT ![i] =
              IF ~UserCreate_valid(username, password)
              THEN Done("register", req, None, HTTPException(422, "validation error"))
              ELSE IF existing_user # {}
              THEN Done("register", req, None, Response(201, [username |-> username]))
              ELSE InFlight("register", "selected", req, None, Some(hashed_pw))]
        /\ users' = IF UserCreate_valid(username, password)
                    THEN {IF r \in existing_user
                          THEN [r EXCEPT !.password_hash = hashed_pw] ELSE r
                          : r \in users}
                    ELSE users
        /\ UNCHANGED <<next_user_id, tasks, next_task_id, username_unique, cli, now>>

\* register up to its lookup of the username (lines 146-153): the body is
\* validated before the handler runs, the password is hashed, the username
\* is looked up.
register_select(i, username, password, salt) ==
    LET hashed_pw == get_password_hash(password, salt)
        existing_user == select_users(users, username)
        req == [username |-> username, password |-> password]
    IN  /\ Idle(i)
        /\ reqs' = [reqs EXCEPT ![i] =
              IF ~UserCreate_valid(username, password)
              THEN Done("register", req, None, HTTPException(422, "validation error"))
              ELSE IF existing_user # {}
              THEN Done("register", req, None,
                        HTTPException(400, "Username already exists"))
              ELSE InFlight("register", "selected", req, None, Some(hashed_pw))]
        /\ UNCHANGED <<store, username_unique, cli, now>>

\* register from its insert on (lines 155-170).
register_insert(i) ==
    LET r == reqs[i]
        ins == insert_user(users, next_user_id, r.req.username, r.local[1],
                           username_unique)
    IN  /\ r.op = "register"
        /\ r.pc = "selected"
        /\ users' = ins.users
        /\ next_user_id' = next_user_id + 1
        /\ reqs' = [reqs EXCEPT ![i] =
              Done("register", r.req, None,
                   IF ins.ok THEN Response(201, [username |-> r.req.username])
                   ELSE HTTPException(500, "Registration failed"))]
        /\ UNCHANGED <<tasks, next_task_id, username_unique, cli, now>>

RegisterSelect(Cs, Names, Words) ==
    \E i \in Cs, username \in Names, password \in Words, salt \in Salts :
        register_select(i, username, password, salt)

RegisterInsert == \E i \in Callers : register_insert(i)

\* A lookup of login that does not verify the password.
login_users_any_password(U, username, password) ==
    LET rows == select_users(U, username)
    IN  IF rows = {} THEN {None} ELSE {Some(user) : user \in rows}

\* The lookup and the verification of login (lines 180-187): the row that is
\* let in, or absent; one outcome per row the select may put first.
login_users(U, username, password) ==
    LET rows == select_users(U, username)
    IN  IF rows = {} THEN {None}
        ELSE {IF verify_password(password, user.password_hash) THEN Some(user)
              ELSE None
              : user \in rows}

\* login up to the verification of the password (lines 174-192).
\* OAuth2PasswordRequestForm puts no constraint on either field.
login_select(i, username, password) ==
    LET req == [username |-> username, password |-> password]
    IN  /\ Idle(i)
        /\ \E found \in login_users(users, username, password) :
              reqs' = [reqs EXCEPT ![i] =
                 IF found = None
                 THEN Done("login", req, None,
                           HTTPException(401, "Incorrect username or password"))
                 ELSE InFlight("login", "selected", req, None,
                               Some(found[1].username))]
        /\ UNCHANGED <<store, username_unique, cli, now>>

\* login from create_access_token on (lines 195-197): the expiry is computed
\* from a reading of the clock (line 117).
login_issue(i) ==
    LET r == reqs[i]
    IN  /\ r.op = "login"
        /\ r.pc = "selected"
        /\ reqs' = [reqs EXCEPT ![i] =
              Answered(r, Response(200,
                  create_access_token([sub |-> Some(r.local[1])], now)))]
        /\ UNCHANGED <<store, username_unique, cli, now>>

LoginSelect(Cs, Names, Words) ==
    \E i \in Cs, username \in Names, password \in Words :
        login_select(i, username, password)

LoginIssue == \E i \in Callers : login_issue(i)

\* ------------------------------------------------------------ task models

TASK_STATUS == {"done", "pending"}

Whitespace == {" "}

RECURSIVE lstrip(_)
lstrip(s) ==
    IF s # <<>> /\ Head(s) \in Whitespace THEN lstrip(Tail(s)) ELSE s

RECURSIVE rstrip(_)
rstrip(s) ==
    IF s # <<>> /\ s[Len(s)] \in Whitespace
    THEN rstrip(SubSeq(s, 1, Len(s) - 1))
    ELSE s

\* str.strip()
strip(s) == rstrip(lstrip(s))

\* The capital letters of the order values and of the answers the callers
\* send; str.lower() maps every other character of the inputs to itself.
lower_char(c) ==
    CASE c = "A" -> "a"
      [] c = "C" -> "c"
      [] c = "D" -> "d"
      [] c = "E" -> "e"
      [] c = "S" -> "s"
      [] c = "Y" -> "y"
      [] OTHER -> c

\* str.lower()
lower(s) == [i \in 1..Len(s) |-> lower_char(s[i])]

\* TaskBase: the field constraints of a create body and of every task sent
\* back (TaskRead inherits them).
TaskBase_valid(t) ==
    /\ Len(t.name) >= NameMinLen
    /\ Len(t.name) <= NameMaxLen
    /\ t.description = None \/ Len(t.description[1]) <= DescriptionMaxLen
    /\ t.priority >= PriorityMin
    /\ t.status \in TASK_STATUS

\* A TaskUpdate whose priority has no lower bound.
TaskUpdate_valid_any_priority(t) ==
    /\ Len(t.name) >= NameMinLen
    /\ Len(t.name) <= NameMaxLen
    /\ t.description # None
    /\ Len(t.description[1]) <= DescriptionMaxLen
    /\ t.status \in TASK_STATUS

\* TaskUpdate: as TaskBase, and description is required.
TaskUpdate_valid(t) ==
    /\ Len(t.name) >= NameMinLen
    /\ Len(t.name) <= NameMaxLen
    /\ t.description # None
    /\ Len(t.description[1]) <= DescriptionMaxLen
    /\ t.priority >= PriorityMin
    /\ t.status \in TASK_STATUS

\* TaskRead: the fields of a row that a response carries.
TaskRead(row) ==
    [id |-> row.id, name |-> row.name, description |-> row.description,
     priority |-> row.priority, status |-> row.status,
     created_on |-> row.created_on, last_modified |-> row.last_modified]

\* response_model=TaskRead: a row that breaks TaskRead's constraints cannot
\* be serialized and the request ends in 500.
respond_task(status_code, row) ==
    IF TaskBase_valid(row)
    THEN Response(status_code, TaskRead(row))
    ELSE HTTPException(500, "Internal Server Error")

\* response_model=list[TaskRead]
respond_tasks(rows) ==
    IF \A i \in 1..Len(rows) : TaskBase_valid(rows[i])
    THEN Response(200, [i \in 1..Len(rows) |-> TaskRead(rows[i])])
    ELSE HTTPException(500, "Internal Server Error")

\* ------------------------------------------------------- task repository

\* A lookup by id alone.
select_task_any_owner(T, task_id, user_id) == {r \in T : r.id = task_id}

\* .eq("id", task_id).eq("user_id", current_user["id"])
select_task(T, task_id, user_id) ==
    {r \in T : r.id = task_id /\ r.user_id = user_id}

\* An insert that stores the name as sent.
insert_task_unstripped(T, id, task, user_id, t) ==
    T \cup {[id |-> id, name |-> task.name, description |-> task.description,
             priority |-> task.priority, status |-> task.status,
             created_on |-> t, last_modified |-> t, user_id |-> user_id]}

\* .insert({...}) of create_task: the name stripped, both timestamps the same
\* reading of the clock.
insert_task(T, id, task, user_id, t) ==
    T \cup {[id |-> id, name |-> strip(task.name), description |-> task.description,
             priority |-> task.priority, status |-> task.status,
             created_on |-> t, last_modified |-> t, user_id |-> user_id]}

\* An update that leaves the status column out.
updated_row_keeps_status(r, body, t) ==
    [r EXCEPT !.name = body.name, !.description = body.description,
              !.priority = body.priority, !.last_modified = t]

\* The row an update leaves in place of row r.
updated_row(r, body, t) ==
    [r EXCEPT !.name = body.name, !.description = body.description,
              !.priority = body.priority, !.status = body.status,
              !.last_modified = t]

\* .update({...}).eq("id", task_id).eq("user_id", ...): one statement.
update_rows(T, task_id, user_id, body, t) ==
    {IF r \in select_task(T, task_id, user_id) THEN updated_row(r, body, t) ELSE r
     : r \in T}

\* A delete without the filter on id.
delete_rows_of_owner(T, task_id, user_id) == {r \in T : r.user_id # user_id}

\* .delete().eq("id", task_id).eq("user_id", ...)
delete_rows(T, task_id, user_id) == T \ select_task(T, task_id, user_id)

\* .eq("user_id", ...) and, for a status of TASK_STATUS, .eq("status", status)
select_tasks(T, user_id, status) ==
    {r \in T : /\ r.user_id = user_id
               /\ status \in {Some("done"), Some("pending")} => r.status = status[1]}

\* .order(sort_by, desc=desc): every sequence of the rows that is ordered by
\* the column; the order of rows equal in the column is the database's choice.
order_rows(R, sort_by, desc) ==
    {f \in [1..Cardinality(R) -> R] :
        /\ \A i, j \in 1..Cardinality(R) : i # j => f[i] # f[j]
        /\ \A i \in 1..(Cardinality(R) - 1) :
              IF desc THEN f[i][sort_by] >= f[i + 1][sort_by]
              ELSE f[i][sort_by] <= f[i + 1][sort_by]}

\* The responses of get_tasks for a resolved user.
get_tasks_responses(T, user_id, sort_by, order, status) ==
    LET allowed_sort_cols == {"priority", "created_on", "last_modified"}
        col == IF sort_by \notin allowed_sort_cols THEN "priority" ELSE sort_by
        desc == lower(order) = <<"d", "e", "s", "c">>
        rows == select_tasks(T, user_id, status)
    IN  {respond_tasks(data) : data \in order_rows(rows, col, desc)}


\* --------------------------------------------------------- task handlers

\* The validation of the body of a guarded request (TaskCreate, TaskUpdate);
\* the other guarded routes have no body.
body_valid(op, req) ==
    CASE op = "create_task" -> TaskBase_valid(req.task)
      [] op = "update_task" -> TaskUpdate_valid(req.body)
      [] OTHER -> TRUE

\* get_current_user verifies the token of the request that arrives against
\* the clock (lines 123-131).
guard_decode(i, op, req) ==
    /\ reqs' = [reqs EXCEPT ![i] =
          IF token_error(req.token, now) # None
          THEN Done(op, req, None, token_error(req.token, now)[1])
          ELSE InFlight(op, "decoded", req, None, None)]
    /\ UNCHANGED <<store, username_unique, cli, now>>

\* get_current_user looks the subject up (lines 134-140); with the user
\* resolved, the body is validated and the handler is called.
guard_select(i) ==
    LET r == reqs[i]
    IN  /\ r.pc = "decoded"
        /\ \E auth \in current_user(r.req.token, users) :
              reqs' = [reqs EXCEPT ![i] =
                 IF auth.err # None
                 THEN Done(r.op, r.req, None, auth.err[1])
                 ELSE IF ~body_valid(r.op, r.req)
                 THEN Done(r.op, r.req, auth.user,
                           HTTPException(422, "validation error"))
                 ELSE InFlight(r.op, "authed", r.req, auth.user, None)]
        /\ UNCHANGED <<store, username_unique, cli, now>>

\* A request to a guarded route arrives from a caller with none in flight.
create_task_start(i, token, task) ==
    /\ Idle(i)
    /\ guard_decode(i, "create_task", [token |-> token, task |-> task])

\* create_task reads the clock (line 203).
create_task_stamp(i) ==
    /\ reqs[i].op = "create_task"
    /\ reqs[i].pc = "authed"
    /\ reqs' = [reqs EXCEPT ![i].pc = "stamped", ![i].local = Some(now)]
    /\ UNCHANGED <<store, username_unique, cli, now>>

\* create_task from its insert on (lines 205-219).
create_task_insert(i) ==
    LET r == reqs[i]
        T == insert_task(tasks, next_task_id, r.req.task, r.user[1].id, r.local[1])
    IN  /\ r.op = "create_task"
        /\ r.pc = "stamped"
        /\ tasks' = T
        /\ next_task_id' = next_task_id + 1
        /\ reqs' = [reqs EXCEPT ![i] =
              Answered(r, respond_task(201, CHOOSE x \in T : x.id = next_task_id))]
        /\ UNCHANGED <<users, next_user_id, username_unique, cli, now>>

get_tasks_start(i, token, sort_by, order, status) ==
    /\ Idle(i)
    /\ guard_decode(i, "get_tasks",
                    [token |-> token, sort_by |-> sort_by, order |-> order,
                     status |-> status])

\* get_tasks from the handler's first line on (lines 229-250).
get_tasks_select(i) ==
    LET r == reqs[i]
    IN  /\ r.op = "get_tasks"
        /\ r.pc = "authed"
        /\ \E resp \in get_tasks_responses(tasks, r.user[1].id, r.req.sort_by,
                                           r.req.order, r.req.status) :
              reqs' = [reqs EXCEPT ![i] = Answered(r, resp)]
        /\ UNCHANGED <<store, username_unique, cli, now>>

get_task_start(i, token, task_id) ==
    /\ Idle(i)
    /\ guard_decode(i, "get_task", [token |-> token, task_id |-> task_id])

\* get_task from its select on (lines 256-269).
get_task_select(i) ==
    LET r == reqs[i]
        data == select_task(tasks, r.req.task_id, r.user[1].id)
    IN  /\ r.op = "get_task"
        /\ r.pc = "authed"
        /\ \E resp \in IF data = {} THEN {HTTPException(404, "Task not found")}
                       ELSE {respond_task(200, task) : task \in data} :
              reqs' = [reqs EXCEPT ![i] = Answered(r, resp)]
        /\ UNCHANGED <<store, username_unique, cli, now>>

update_task_start(i, token, task_id, body) ==
    /\ Idle(i)
    /\ guard_decode(i, "update_task",
                    [token |-> token, task_id |-> task_id, body |-> body])

\* update_task: its existence check (lines 275-284).
update_select(i) ==
    LET r == reqs[i]
        exists == select_task(tasks, r.req.task_id, r.user[1].id)
    IN  /\ r.op = "update_task"
        /\ r.pc = "authed"
        /\ reqs' = [reqs EXCEPT ![i] =
              IF exists = {}
              THEN Answered(r, HTTPException(404, "Task not found"))
              ELSE [r EXCEPT !.pc = "selected"]]
        /\ UNCHANGED <<store, username_unique, cli, now>>

\* update_task reads the clock (line 286).
update_stamp(i) ==
    /\ reqs[i].op = "update_task"
    /\ reqs[i].pc = "selected"
    /\ reqs' = [reqs EXCEPT ![i].pc = "stamped", ![i].local = Some(now)]
    /\ UNCHANGED <<store, username_unique, cli, now>>

\* update_task from its update statement on (lines 289-306).
update_write(i) ==
    LET r == reqs[i]
        T == update_rows(tasks, r.req.task_id, r.user[1].id, r.req.body, r.local[1])
        data == select_task(T, r.req.task_id, r.user[1].id)
    IN  /\ r.op = "update_task"
        /\ r.pc = "stamped"
        /\ tasks' = T
        /\ \E resp \in IF data = {} THEN {HTTPException(500, "Update failed")}
                       ELSE {respond_task(200, task) : task \in data} :
              reqs' = [reqs EXCEPT ![i] = Answered(r, resp)]
        /\ UNCHANGED <<users, next_user_id, next_task_id, username_unique, cli, now>>

delete_task_start(i, token, task_id) ==
    /\ Idle(i)
    /\ guard_decode(i, "delete_task", [token |-> token, task_id |-> task_id])

\* delete_task: its existence check (lines 315-324).
delete_select(i) ==
    LET r == reqs[i]
        exists == select_task(tasks, r.req.task_id, r.user[1].id)
    IN  /\ r.op = "delete_task"
        /\ r.pc = "authed"
        /\ reqs' = [reqs EXCEPT ![i] =
              IF exists = {}
              THEN Answered(r, HTTPException(404, "Task not found"))
              ELSE [r EXCEPT !.pc = "selected"]]
        /\ UNCHANGED <<store, username_unique, cli, now>>

\* delete_task from its delete statement on (lines 327-336).
delete_delete(i) ==
    LET r == reqs[i]
    IN  /\ r.op = "delete_task"
        /\ r.pc = "selected"
        /\ tasks' = delete_rows(tasks, r.req.task_id, r.user[1].id)
        /\ reqs' = [reqs EXCEPT ![i] = Answered(r, NoContent)]
        /\ UNCHANGED <<users, next_user_id, next_task_id, username_unique, cli, now>>

\* ------------------------------------------------------- request inputs

TaskA == [name |-> <<"a">>, description |-> None, priority |-> 1, status |-> "pending"]
TaskB == [name |-> <<" ", "b">>, description |-> Some(<<"d">>), priority |-> 2,
          status |-> "done"]
TaskC == [name |-> <<"c", " ">>, description |-> Some(<<>>), priority |-> 3,
          status |-> "pending"]
\* A name of one blank: long enough for TaskBase, empty once stripped.
TaskBlank == [name |-> <<" ">>, description |-> None, priority |-> 1,
              status |-> "pending"]
\* Rejected by TaskBase and TaskUpdate: priority below 1.
TaskBad == [name |-> <<"a">>, description |-> Some(<<"d">>), priority |-> 0,
            status |-> "done"]
\* Rejected by TaskBase and TaskUpdate: a status outside TASK_STATUS.
TaskBadStatus == [name |-> <<"a">>, description |-> Some(<<"d">>), priority |-> 1,
                  status |-> "complete"]
\* Rejected by TaskBase and TaskUpdate: a description one character too long.
TaskLongDescription ==
    [name |-> <<"a">>,
     description |-> Some([i \in 1..(DescriptionMaxLen + 1) |-> "x"]),
     priority |-> 1, status |-> "done"]

\* The token login issues to username at time t.
session_token(username, t) == create_access_token([sub |-> Some(username)], t)

\* The tokens of the two users logged in at time 0, and one whose signature
\* does not verify.
SessionTokens ==
    {session_token(u, 0) : u \in Usernames}
        \cup {[sub |-> Some("alice"), exp |-> Some(ACCESS_TOKEN_EXPIRE_MINUTES),
               sig |-> FALSE]}

TaskIds == 1..(MaxTasks + 1)

\* The arrival of a request of the callers Cs, and the later steps of the
\* requests in flight.
CreateTask(Cs, Tokens, Bodies, max) ==
    /\ next_task_id <= max
    /\ \E i \in Cs, token \in Tokens, task \in Bodies :
          create_task_start(i, token, task)

GetTasks(Cs, Tokens, SortBys, Orders, Statuses) ==
    \E i \in Cs, token \in Tokens, sort_by \in SortBys, order \in Orders,
       status \in Statuses :
        get_tasks_start(i, token, sort_by, order, status)

GetTask(Cs, Tokens, Ids) ==
    \E i \in Cs, token \in Tokens, task_id \in Ids : get_task_start(i, token, task_id)

UpdateTask(Cs, Tokens, Ids, Bodies) ==
    \E i \in Cs, token \in Tokens, task_id \in Ids, body \in Bodies :
        update_task_start(i, token, task_id, body)

DeleteTask(Cs, Tokens, Ids) ==
    \E i \in Cs, token \in Tokens, task_id \in Ids :
        delete_task_start(i, token, task_id)

GuardSelect == \E i \in Callers : guard_select(i)

CreateTaskStamp == \E i \in Callers : create_task_stamp(i)

CreateTaskInsert == \E i \in Callers : create_task_insert(i)

GetTasksSelect == \E i \in Callers : get_tasks_select(i)

GetTaskSelect == \E i \in Callers : get_task_select(i)

UpdateSelect == \E i \in Callers : update_select(i)

UpdateStamp == \E i \in Callers : update_stamp(i)

UpdateWrite == \E i \in Callers : update_write(i)

DeleteSelect == \E i \in Callers : delete_select(i)

DeleteDelete == \E i \in Callers : delete_delete(i)

\* No caller has sent a request.
NoRequests == reqs = [i \in Callers |-> NewRequest]

\* The terminal programs at their start: db = {} (main_dict.py, line 132) and
\* a tasks.db just created (main_db.py, lines 174-186).
NoCli ==
    /\ database = <<>>
    /\ conn = [tasks |-> {}, sqlite_sequence |-> 0]
    /\ issued = [dict |-> {}, db |-> {}]

\* ------------------------------- the service, one request after another

\* A fresh deployment: empty tables. One request at a time never reaches the
\* constraint on users.username (register looks the username up first), so
\* the specifications of one request after another fix it as the schema
\* documents it.
Init ==
    /\ users = {}
    /\ next_user_id = 1
    /\ username_unique = TRUE
    /\ tasks = {}
    /\ next_task_id = 1
    /\ now = 0
    /\ NoRequests
    /\ NoCli

\* The one body and the one id the guarded routes are called with.
GuardedBodies == {TaskA}
GuardedIds == {1}

\* Registration, login and the authorization guard in front of a write
\* (create_task) and a read (get_task), under every token of TokenSpace; the
\* clock advances between the requests and between the steps of a request.
Next ==
    \/ RegisterSelect(Serial, UsernameInputs, PasswordInputs)
    \/ RegisterInsert
    \/ LoginSelect(Serial, Usernames, Passwords)
    \/ LoginIssue
    \/ Tick
    \/ CreateTask(Serial, TokenSpace, GuardedBodies, MaxGuardedTasks)
    \/ GetTask(Serial, TokenSpace, GuardedIds)
    \/ GuardSelect
    \/ CreateTaskStamp
    \/ CreateTaskInsert
    \/ GetTaskSelect

Spec == Init /\ [][Next]_vars

\* --------------------------- the task repository, one request after another

alice == [id |-> 1, username |-> "alice",
          password_hash |-> get_password_hash("secret1", 1)]
bob == [id |-> 2, username |-> "bob",
        password_hash |-> get_password_hash("hunter22", 2)]

\* alice and bob have registered and logged in at time 0.
InitTasks ==
    /\ users = {alice, bob}
    /\ next_user_id = 3
    /\ username_unique = TRUE
    /\ tasks = {}
    /\ next_task_id = 1
    /\ now = 0
    /\ NoRequests
    /\ NoCli

StatusFilters == {None, Some("done"), Some("pending"), Some("bogus")}

\* Bodies sent to create_task and to update_task: accepted ones and one for
\* each constraint that rejects.
CreateBodies ==
    {TaskA, TaskB, TaskBlank, TaskBad, TaskBadStatus, TaskLongDescription}
UpdateBodies == {TaskC, TaskBad, TaskBadStatus, TaskLongDescription}

\* The defaults of get_tasks.
DefaultSortBys == {"priority"}
DefaultOrders == {<<"d", "e", "s", "c">>}

\* The task routes, one request after another, under the tokens of time 0, a
\* token that does not verify and every body; the clock advances between the
\* requests and between the steps of a request, until the tokens have run out.
NextTasks ==
    \/ CreateTask(Serial, SessionTokens, CreateBodies, MaxTasks)
    \/ GetTasks(Serial, SessionTokens, DefaultSortBys, DefaultOrders, StatusFilters)
    \/ GetTask(Serial, SessionTokens, TaskIds)
    \/ UpdateTask(Serial, SessionTokens, TaskIds, UpdateBodies)
    \/ DeleteTask(Serial, SessionTokens, TaskIds)
    \/ Tick
    \/ GuardSelect
    \/ CreateTaskStamp
    \/ CreateTaskInsert
    \/ GetTasksSelect
    \/ GetTaskSelect
    \/ UpdateSelect
    \/ UpdateStamp
    \/ UpdateWrite
    \/ DeleteSelect
    \/ DeleteDelete

SpecTasks == InitTasks /\ [][NextTasks]_vars

\* ------------------------- the task repository and the clock, two requests

\* The tokens of the two users logged in at time 0.
OwnerTokens == {session_token(u, 0) : u \in Usernames}

\* Bodies TaskBase and TaskUpdate accept.
AcceptedCreateBodies == {TaskA, TaskB, TaskBlank}
AcceptedUpdateBodies == {TaskC}

\* Each caller sends one request, a create, a read or an update, and the two
\* are served in any interleaving while the clock advances (and the tokens
\* of time 0 run out).
NextTaskTimes ==
    \/ CreateTask(Fresh, OwnerTokens, AcceptedCreateBodies, MaxTasks)
    \/ GetTask(Fresh, OwnerTokens, TaskIds)
    \/ UpdateTask(Fresh, OwnerTokens, TaskIds, AcceptedUpdateBodies)
    \/ Tick
    \/ GuardSelect
    \/ CreateTaskStamp
    \/ CreateTaskInsert
    \/ GetTaskSelect
    \/ UpdateSelect
    \/ UpdateStamp
    \/ UpdateWrite

SpecTaskTimes == InitTasks /\ [][NextTaskTimes]_vars

\* --------------------------------------- listing, one request after another

\* A row as create_task stores it for a body at time t.
task_row(id, task, user_id, t) ==
    CHOOSE r \in insert_task({}, id, task, user_id, t) : TRUE

\* alice has created tasks of priorities 1, 5 and 3, one a minute, and bob one
\* of priority 5, before the logins of time 0.
ListTasks ==
    {task_row(1, [TaskA EXCEPT !.priority = 1], alice.id, -3),
     task_row(2, [TaskB EXCEPT !.priority = 5], alice.id, -2),
     task_row(3, [TaskA EXCEPT !.priority = 3, !.name = <<"c">>], alice.id, -1),
     task_row(4, [TaskB EXCEPT !.priority = 5], bob.id, -1)}

InitList ==
    /\ users = {alice, bob}
    /\ next_user_id = 3
    /\ username_unique = TRUE
    /\ tasks = ListTasks
    /\ next_task_id = 5
    /\ now = 0
    /\ NoRequests
    /\ NoCli

\* sort_by values: the three columns get_tasks allows and one it does not.
SortBys == {"priority", "created_on", "last_modified", "name"}

\* order values: desc, asc, DESC and one that is neither after lower().
Orders ==
    {<<"d", "e", "s", "c">>, <<"a", "s", "c">>, <<"D", "E", "S", "C">>, <<"u", "p">>}

\* status values of the listings: none, and one that filters.
ListFilters == {None, Some("pending")}
\* The tasks that are updated between listings.
ListUpdateIds == {1, 2}

\* Listings under every sort_by and order, while updates (to priority 3, a tie
\* with task 3) and the clock change priorities and last_modified.
NextList ==
    \/ GetTasks(Serial, OwnerTokens, SortBys, Orders, ListFilters)
    \/ UpdateTask(Serial, OwnerTokens, ListUpdateIds, AcceptedUpdateBodies)
    \/ Tick
    \/ GuardSelect
    \/ GetTasksSelect
    \/ UpdateSelect
    \/ UpdateStamp
    \/ UpdateWrite

SpecList == InitList /\ [][NextList]_vars

\* Bodies of the creates between listings: one with a name, one whose name is
\* one blank.
ListCreateBodies == {TaskA, TaskBlank}

\* Listings under every sort_by and order, while creates add rows to the
\* tables of alice and bob and the clock advances.
NextListCreate ==
    \/ CreateTask(Serial, OwnerTokens, ListCreateBodies,
                  Cardinality(ListTasks) + MaxGuardedTasks)
    \/ GetTasks(Serial, OwnerTokens, SortBys, Orders, ListFilters)
    \/ Tick
    \/ GuardSelect
    \/ CreateTaskStamp
    \/ CreateTaskInsert
    \/ GetTasksSelect

SpecListCreate == InitList /\ [][NextListCreate]_vars

\* ------------------------------------------------- requests in parallel

\* Passwords of the racing registrations: one UserCreate accepts, one it rejects.
RacePasswords == {"secret1", "short"}

\* A fresh deployment whose schema may or may not constrain users.username.
InitRegisterRace ==
    /\ users = {}
    /\ next_user_id = 1
    /\ username_unique \in BOOLEAN
    /\ tasks = {}
    /\ next_task_id = 1
    /\ now = 0
    /\ NoRequests
    /\ NoCli

\* Each caller sends one register; the two are served in any interleaving
\* while the clock advances.
NextRegisterRace ==
    \/ RegisterSelect(Fresh, UsernameInputs, RacePasswords)
    \/ RegisterInsert
    \/ Tick

SpecRegisterRace == InitRegisterRace /\ [][NextRegisterRace]_vars

\* The token, the task and the bodies of the racing task requests.
RaceTokens == {session_token("alice", 0)}
RaceIds == {1}
RaceBodies == {TaskB, TaskC}

\* The one task of the race: alice's, created from TaskA at time 0.
RaceTask ==
    [id |-> 1, name |-> <<"a">>, description |-> None, priority |-> 1,
     status |-> "pending", created_on |-> 0, last_modified |-> 0, user_id |-> 1]

\* alice and bob have registered, alice has logged in and created RaceTask.
InitTaskRace ==
    /\ users = {alice, bob}
    /\ next_user_id = 3
    /\ username_unique = TRUE
    /\ tasks = {RaceTask}
    /\ next_task_id = 2
    /\ now = 0
    /\ NoRequests
    /\ NoCli

\* Each caller sends one request of alice's about her task; the two are served
\* in any interleaving while the clock advances.
NextTaskRace ==
    \/ UpdateTask(Fresh, RaceTokens, RaceIds, RaceBodies)
    \/ DeleteTask(Fresh, RaceTokens, RaceIds)
    \/ GetTask(Fresh, RaceTokens, RaceIds)
    \/ GetTasks(Fresh, RaceTokens, DefaultSortBys, DefaultOrders, ListFilters)
    \/ CreateTask(Fresh, RaceTokens, GuardedBodies, MaxTasks)
    \/ Tick
    \/ GuardSelect
    \/ UpdateSelect
    \/ UpdateStamp
    \/ UpdateWrite
    \/ DeleteSelect
    \/ DeleteDelete
    \/ GetTaskSelect
    \/ GetTasksSelect
    \/ CreateTaskStamp
    \/ CreateTaskInsert

SpecTaskRace == InitTaskRace /\ [][NextTaskRace]_vars

\* ------------------------------------------------ the terminal programs

\* The keys of a dict, kept as the sequence of its items in insertion order.
keys(d) == {d[i].key : i \in 1..Len(d)}

\* max()
Max(S) == CHOOSE m \in S : \A x \in S : x <= m

\* d[k] = v: the item of a key the dict has is replaced in place, a new key
\* goes to the end.
dict_setitem(d, k, v) ==
    IF k \in keys(d)
    THEN [i \in 1..Len(d) |-> IF d[i].key = k THEN [key |-> k, value |-> v] ELSE d[i]]
    ELSE Append(d, [key |-> k, value |-> v])

\* d[k]
dict_getitem(d, k) == (CHOOSE i \in 1..Len(d) : d[i].key = k)

\* del d[k]
RECURSIVE dict_delitem(_, _)
dict_delitem(d, k) ==
    IF d = <<>> THEN <<>>
    ELSE IF Head(d).key = k THEN Tail(d)
    ELSE <<Head(d)>> \o dict_delitem(Tail(d), k)

\* main_dict.py, create: the index is the largest key plus one.
dict_create(task_name, task_description, task_priority, status) ==
    LET task == [Name |-> task_name, Description |-> task_description,
                 Priority |-> task_priority, Status |-> status]
        index == IF keys(database) # {} THEN Max(keys(database)) + 1 ELSE 1
    IN  /\ database' = dict_setitem(database, index, task)
        /\ issued' = [issued EXCEPT !.dict = @ \cup {index}]

\* main_dict.py, task_status: the dict it leaves.
dict_task_status(d, index, status) ==
    IF index \notin keys(d) THEN d
    ELSE LET i == dict_getitem(d, index)
             current_status == d[i].value.Status
         IN  IF current_status = status THEN d
             ELSE [d EXCEPT ![i].value.Status = status]

\* main_dict.py, delete; choice is the answer typed at the prompt.
dict_delete(index, choice) ==
    /\ IF index \notin keys(database) THEN UNCHANGED database
       ELSE IF lower(choice) = <<"y", "e", "s">>
       THEN database' = dict_delitem(database, index)
       ELSE UNCHANGED database
    /\ UNCHANGED issued

\* INTEGER PRIMARY KEY AUTOINCREMENT: one more than the largest id the table
\* has ever held, which sqlite_sequence remembers.
autoincrement(c) == Max({c.sqlite_sequence} \cup {r.id : r \in c.tasks}) + 1

\* main_db.py, create
db_create(task_name, task_description, task_priority, status) ==
    LET id == autoincrement(conn)
    IN  /\ conn' = [tasks |-> conn.tasks \cup
                        {[id |-> id, name |-> task_name,
                          description |-> task_description,
                          priority |-> task_priority, status |-> status]},
                    sqlite_sequence |-> id]
        /\ issued' = [issued EXCEPT !.db = @ \cup {id}]

\* An UPDATE without its WHERE clause.
db_task_status_every_row(c, index, status) ==
    LET result == {r \in c.tasks : r.id = index}
    IN  IF result = {} THEN c
        ELSE IF \A r \in result : r.status = status THEN c
        ELSE [c EXCEPT !.tasks = {[r EXCEPT !.status = status] : r \in c.tasks}]

\* main_db.py, task_status: the database it leaves.
db_task_status(c, index, status) ==
    LET result == {r \in c.tasks : r.id = index}
    IN  IF result = {} THEN c
        ELSE IF \A r \in result : r.status = status THEN c
        ELSE [c EXCEPT !.tasks =
                 {IF r.id = index THEN [r EXCEPT !.status = status] ELSE r
                  : r \in c.tasks}]

\* main_db.py, delete
db_delete(index, choice) ==
    /\ LET result == {r \in conn.tasks : r.id = index}
       IN  IF result = {} THEN UNCHANGED conn
           ELSE IF lower(choice) = <<"y", "e", "s">>
           THEN conn' = [conn EXCEPT !.tasks = {r \in conn.tasks : r.id # index}]
           ELSE UNCHANGED conn
    /\ UNCHANGED issued

\* What main() passes on: any name and description, any integer as priority,
\* a status of complete or incomplete.
CliStatus == {"complete", "incomplete"}
CliTasks ==
    {[name |-> "a", description |-> "d", priority |-> 1, status |-> "incomplete"],
     [name |-> "b", description |-> "", priority |-> -2, status |-> "complete"]}
\* Answers to "Are you sure".
Choices == {<<"y", "e", "s">>, <<"Y", "e", "s">>, <<"n", "o">>}
\* Indexes typed at the prompt: those in use and one never in use.
CliIndexes == 0..MaxTasks

DictCreate ==
    /\ \A k \in keys(database) : k < MaxTasks
    /\ \E t \in CliTasks : dict_create(t.name, t.description, t.priority, t.status)
    /\ UNCHANGED <<service, conn>>

DictTaskStatus ==
    /\ \E index \in CliIndexes, status \in CliStatus :
          database' = dict_task_status(database, index, status)
    /\ UNCHANGED <<service, conn, issued>>

DictDelete ==
    /\ \E index \in CliIndexes, choice \in Choices : dict_delete(index, choice)
    /\ UNCHANGED <<service, conn>>

DbCreate ==
    /\ autoincrement(conn) <= MaxTasks
    /\ \E t \in CliTasks : db_create(t.name, t.description, t.priority, t.status)
    /\ UNCHANGED <<service, database>>

DbTaskStatus ==
    /\ \E index \in CliIndexes, status \in CliStatus :
          conn' = db_task_status(conn, index, status)
    /\ UNCHANGED <<service, database, issued>>

DbDelete ==
    /\ \E index \in CliIndexes, choice \in Choices : db_delete(index, choice)
    /\ UNCHANGED <<service, database>>

\* Both programs at their start; the service is not running.
InitCli ==
    /\ users = {}
    /\ next_user_id = 1
    /\ username_unique = TRUE
    /\ tasks = {}
    /\ next_task_id = 1
    /\ now = 0
    /\ NoRequests
    /\ NoCli

NextCli ==
    \/ DictCreate
    \/ DictTaskStatus
    \/ DictDelete
    \/ DbCreate
    \/ DbTaskStatus
    \/ DbDelete

SpecCli == InitCli /\ [][NextCli]_vars

\* ================================================================ claims

\* The response an operation gives for a task that is not the caller's.
NotFound == HTTPException(404, "Task not found")

GuardedOps == {"create_task", "get_tasks", "get_task", "update_task", "delete_task"}

\* The details the first half of get_current_user gives its 401s.
TokenRefusals ==
    {"Token has expired", "Invalid token", "Invalid token: missing subject"}

\* The operations that address one task by its id, and those that carry a body.
TaskByIdOps == {"get_task", "update_task", "delete_task"}
BodyOps == {"create_task", "update_task"}

\* The answers of two racing registrations and of two racing deletes, and the
\* answers an update may give.
OneCreatedOneDuplicate == {201, 400}
OneDeletedOneNotFound == {204, 404}
UpdatedOrNotFound == {200, 404}

\* The order values get_tasks knows, and the columns it sorts by.
KnownOrders == {<<"a", "s", "c">>, <<"d", "e", "s", "c">>}
SortColumns == {"priority", "created_on", "last_modified"}

\* The pcs of a guarded request the guard has not let through.
BeforeHandler == {"decoded", "done"}

\* The step is one of the request of caller i.
Acts(i) == reqs'[i] # reqs[i]

\* The step is the arrival of a request of op from caller i.
Arrives(i, op) == reqs[i].pc \in IdlePcs /\ Acts(i) /\ reqs'[i].op = op

\* The step is the one the request of op of caller i takes from pc.
Continues(i, op, pc) == reqs[i].op = op /\ reqs[i].pc = pc /\ Acts(i)

\* C1: when two register calls for one (valid) username are served at once,
\* exactly one gets 201, the other gets 400 "Username already exists", and
\* the users table ends with exactly one row of that username.
C1_ConcurrentRegisterOneWins ==
    \A i, j \in Callers :
        (/\ i # j
         /\ reqs[i].op = "register" /\ reqs[i].pc = "done"
         /\ reqs[j].op = "register" /\ reqs[j].pc = "done"
         /\ reqs[i].req.username = reqs[j].req.username
         /\ UserCreate_valid(reqs[i].req.username, reqs[i].req.password)
         /\ UserCreate_valid(reqs[j].req.username, reqs[j].req.password))
        => /\ {reqs[i].resp.code, reqs[j].resp.code} = OneCreatedOneDuplicate
           /\ \A k \in Callers :
                 reqs[k].resp.code = 400 =>
                     reqs[k].resp.detail = "Username already exists"
           /\ Cardinality({r \in users : r.username = reqs[i].req.username}) = 1

\* The lookup for an id of another user's task or of no task, the rows a step
\* removes or changes, and the tasks that are sent back.
C2_Step ==
    /\ \A i \in Callers, op \in TaskByIdOps :
          Continues(i, op, "authed") =>
              LET id == reqs[i].req.task_id
                  caller == reqs[i].user[1].id
                  foreign == \E r \in tasks : r.id = id /\ r.user_id # caller
                  missing == \A r \in tasks : r.id # id
              IN  (foreign \/ missing) => /\ reqs'[i].pc = "done"
                                          /\ reqs'[i].resp = NotFound
                                          /\ tasks' = tasks
    /\ \A r \in tasks :
          r \notin tasks' => \E i \in Callers : /\ Acts(i)
                                                /\ reqs[i].user # None
                                                /\ reqs[i].user[1].id = r.user_id
    /\ \A i \in Callers :
          (/\ Acts(i)
           /\ reqs'[i].op \in TaskByIdOps
           /\ reqs'[i].resp # None
           /\ reqs'[i].resp.data # None)
          => \E r \in tasks' : /\ r.user_id = reqs'[i].user[1].id
                               /\ r.id = reqs'[i].req.task_id
                               /\ TaskRead(r) = reqs'[i].resp.data[1]

\* C2: the lookup of get_task, update_task and delete_task by an authenticated
\* user for a task id that belongs to another user answers 404 "Task not
\* found", the very response given for an id no task has, and leaves the
\* tasks table unchanged; no step of a request removes or changes a row of
\* another user; and a task that is sent back is the caller's row of the id
\* asked for.
C2_ForeignTaskNotFound == [][C2_Step]_vars

\* bob's update of a task of alice's that is still in the table got 404.
C2_Witness ==
    \E i \in Callers :
        /\ reqs[i].op = "update_task"
        /\ reqs[i].pc = "done"
        /\ reqs[i].user # None
        /\ reqs[i].resp = NotFound
        /\ \E r \in tasks : /\ r.id = reqs[i].req.task_id
                            /\ r.user_id # reqs[i].user[1].id

\* A request holds a user only as the guard resolves it: for a token whose
\* signature verifies and whose subject is present, a row of the users table
\* of the subject's username; the handler's steps are those of a request with
\* a user; a request answered 401 has none.
C3_Resolved ==
    \A i \in Callers :
        reqs[i].op \in GuardedOps =>
            /\ reqs[i].user # None =>
                  /\ reqs[i].req.token.sig
                  /\ reqs[i].req.token.sub # None
                  /\ reqs[i].req.token.sub # Some("")
                  /\ reqs[i].user[1] \in users
                  /\ reqs[i].user[1].username = reqs[i].req.token.sub[1]
            /\ reqs[i].pc \notin BeforeHandler => reqs[i].user # None
            /\ (reqs[i].resp # None /\ reqs[i].resp.code = 401) => reqs[i].user = None

\* The two halves of the guard, and the steps that write the tasks table.
C3_Step ==
    /\ \A i \in Callers :
          (Acts(i) /\ reqs[i].pc \in IdlePcs /\ reqs'[i].op \in GuardedOps) =>
              LET token == reqs'[i].req.token
                  signed == token.sig
                  expired == token.exp # None /\ token.exp[1] <= now
                  subject == token.sub # None /\ token.sub # Some("")
                  resp == reqs'[i].resp
              IN  /\ reqs'[i].user = None
                  /\ UNCHANGED store
                  /\ IF signed /\ ~expired /\ subject
                     THEN reqs'[i].pc = "decoded" /\ resp = None
                     ELSE /\ reqs'[i].pc = "done"
                          /\ resp.code = 401
                          /\ resp.data = None
                          /\ resp.detail \in TokenRefusals
                          /\ resp.detail = "Token has expired" => expired
                          /\ resp.detail = "Invalid token" => ~signed
                          /\ resp.detail = "Invalid token: missing subject" => ~subject
    /\ \A i \in Callers :
          (Acts(i) /\ reqs[i].pc = "decoded" /\ reqs[i].op \in GuardedOps) =>
              LET token == reqs[i].req.token
                  known == \E r \in users : r.username = token.sub[1]
                  resp == reqs'[i].resp
              IN  /\ UNCHANGED store
                  /\ IF known
                     THEN /\ reqs'[i].user # None
                          /\ reqs'[i].user[1] \in users
                          /\ reqs'[i].user[1].username = token.sub[1]
                          /\ resp = None \/ resp.code # 401
                     ELSE /\ reqs'[i].user = None
                          /\ reqs'[i].pc = "done"
                          /\ resp = HTTPException(401, "User not found")
    /\ (tasks' # tasks \/ next_task_id' # next_task_id)
          => \E i \in Callers : /\ Acts(i)
                                /\ reqs[i].op \in GuardedOps
                                /\ reqs[i].user # None

\* C3: the authorization guard resolves a user exactly when the token's
\* signature verifies, its expiry has not passed when the token is verified,
\* its subject is present and non-empty and a user of that username exists;
\* the resolved user is a row of the users table with the subject's username.
\* Otherwise the request ends in 401 with one of the four details, each given
\* only in its own case, and the tasks table is written only by requests the
\* guard has resolved a user for.
C3_GuardResolvesOnlyValidTokens == []C3_Resolved /\ [][C3_Step]_vars

\* A signed, unexpired token whose subject is not a user was turned away
\* from create_task while another user exists.
C3_Witness ==
    \E i \in Callers :
        /\ reqs[i].op = "create_task"
        /\ reqs[i].pc = "done"
        /\ reqs[i].resp = HTTPException(401, "User not found")
        /\ users # {}
        /\ tasks = {}

\* The expiry login gives its token, and the verification of a token issued
\* to a user (at t, with expiry t + 15) at a time after its expiry.
C4_Step ==
    /\ \A i \in Callers :
          Continues(i, "login", "selected") =>
              /\ reqs'[i].resp.code = 200
              /\ reqs'[i].resp.data[1].exp = Some(now + 15)
              /\ reqs'[i].resp.data[1].sig
    /\ \A i \in Callers :
          (/\ Acts(i)
           /\ reqs[i].pc \in IdlePcs
           /\ reqs'[i].op \in GuardedOps
           /\ reqs'[i].req.token.sig
           /\ reqs'[i].req.token.sub \in {Some(u) : u \in Usernames}
           /\ reqs'[i].req.token.exp # None
           /\ now > reqs'[i].req.token.exp[1])
          => /\ reqs'[i].pc = "done"
             /\ reqs'[i].resp = HTTPException(401, "Token has expired")
             /\ reqs'[i].user = None

\* C4: the token login issues at time t expires at t + 15 minutes, and a
\* guarded request whose token, issued at t to a user, is verified at any
\* time after t + 15 ends in 401 "Token has expired" and resolves no user.
C4_TokenExpiresAfterTTL == [][C4_Step]_vars

\* The token alice got at time 0 was presented after minute 15 and refused.
C4_Witness ==
    \E i \in Callers :
        /\ reqs[i].op = "get_task"
        /\ reqs[i].pc = "done"
        /\ reqs[i].req.token = [sub |-> Some("alice"), exp |-> Some(15), sig |-> TRUE]
        /\ \E r \in users : r.username = "alice"
        /\ now > 15
        /\ reqs[i].resp = HTTPException(401, "Token has expired")

\* The insert of a register answered 201, the arrival of the login that
\* follows it, and the token that login issues.
C5_Step ==
    \A i \in Callers :
        /\ (Continues(i, "register", "selected") /\ reqs'[i].resp.code = 201)
              => \E r \in users' \ users :
                    /\ r.id = next_user_id
                    /\ r.username = reqs[i].req.username
                    /\ verify_password(reqs[i].req.password, r.password_hash)
        /\ (/\ reqs[i].op = "register"
            /\ reqs[i].pc = "done"
            /\ reqs[i].resp.code = 201
            /\ Arrives(i, "login")
            /\ reqs'[i].req = reqs[i].req)
              => /\ reqs'[i].pc = "selected"
                 /\ reqs'[i].local = Some(reqs[i].req.username)
                 /\ \E r \in users : /\ r.id = next_user_id - 1
                                     /\ r.username = reqs[i].req.username
        /\ Continues(i, "login", "selected")
              => /\ reqs'[i].resp.code = 200
                 /\ reqs'[i].resp.data # None
                 /\ reqs'[i].resp.data[1].sub = Some(reqs[i].req.username)
                 /\ \A auth \in get_current_user(reqs'[i].resp.data[1], users', now') :
                       /\ auth.err = None
                       /\ auth.user[1] \in users
                       /\ auth.user[1].username = reqs[i].req.username
                       /\ verify_password(reqs[i].req.password,
                                          auth.user[1].password_hash)

\* C5: a register answered 201 has stored a row of the username, under the
\* next id, whose hash verifies the password; the login that follows it with
\* the same username and password passes the lookup and the verification;
\* and a login that has passed them answers 200 with a token whose subject is
\* the username and which the authorization guard resolves to a row of that
\* username whose hash verifies the password.
C5_RegisterThenLogin == [][C5_Step]_vars

\* bob, the user registered last of two, has logged in.
C5_Witness ==
    \E i \in Callers :
        /\ reqs[i].op = "login"
        /\ reqs[i].pc = "done"
        /\ reqs[i].resp.code = 200
        /\ reqs[i].resp.data[1].sub = Some("bob")
        /\ Cardinality(users) = 2
        /\ \E r \in users : r.username = "bob" /\ r.id = next_user_id - 1

\* The lookup and verification of login, and the answer that follows them.
C6_Step ==
    \A i \in Callers :
        /\ Arrives(i, "login") =>
              LET username == reqs'[i].req.username
                  password == reqs'[i].req.password
                  match == \E r \in users :
                              /\ r.username = username
                              /\ verify_password(password, r.password_hash)
              IN  /\ reqs'[i].pc = "selected" <=> match
                  /\ match => reqs'[i].resp = None
                  /\ ~match => /\ reqs'[i].pc = "done"
                               /\ reqs'[i].resp =
                                     HTTPException(401, "Incorrect username or password")
                  /\ UNCHANGED store
        /\ Continues(i, "login", "selected") =>
              /\ reqs'[i].pc = "done"
              /\ reqs'[i].resp.code = 200
              /\ reqs'[i].resp.data # None
              /\ reqs'[i].resp.data[1].sub = Some(reqs[i].req.username)
              /\ UNCHANGED store

\* C6: login goes on to issue a token exactly when a user of the username
\* exists and the password verifies against that user's stored hash, and it
\* then answers 200 with a token for the username; an unknown username and a
\* wrong password get one and the same 401, which carries no token; login
\* never changes the store.
C6_LoginIffCredentialsMatch == [][C6_Step]_vars

\* A registered user was refused for a wrong password.
C6_Witness ==
    \E i \in Callers :
        /\ reqs[i].op = "login"
        /\ reqs[i].pc = "done"
        /\ reqs[i].resp.code = 401
        /\ \E r \in users : /\ r.username = reqs[i].req.username
                            /\ ~verify_password(reqs[i].req.password, r.password_hash)

\* A register for a username the users table holds ends at its lookup: it
\* leaves the table as it was and, with a body UserCreate accepts, gets 400
\* "Username already exists"; and no step changes or removes a stored row.
C7_Step ==
    /\ \A i \in Callers :
          (Arrives(i, "register") /\ \E r \in users : r.username = reqs'[i].req.username)
          => /\ users' = users
             /\ reqs'[i].pc = "done"
             /\ UserCreate_valid(reqs'[i].req.username, reqs'[i].req.password)
                   => reqs'[i].resp = HTTPException(400, "Username already exists")
    /\ \A r \in users : r \in users'

C7_UsernamesUnique ==
    \A r1, r2 \in users : r1.username = r2.username => r1 = r2

\* C7: a register (with a body UserCreate accepts) for a username the users
\* table holds gets 400 "Username already exists"; whatever the body, such a
\* register leaves the users table as it was, the stored hash included; and
\* when registrations are served one after another no two rows ever share a
\* username.
C7_DuplicateUsernameRejected == []C7_UsernamesUnique /\ [][C7_Step]_vars

\* A register for a taken username, with another password, was refused and
\* the stored hash still verifies only the first password.
C7_Witness ==
    \E i \in Callers :
        /\ reqs[i].op = "register"
        /\ reqs[i].pc = "done"
        /\ reqs[i].resp = HTTPException(400, "Username already exists")
        /\ \E r \in users : /\ r.username = reqs[i].req.username
                            /\ ~verify_password(reqs[i].req.password, r.password_hash)

\* C8: when the owner's update_task and delete_task race on one task, the
\* update ends in 200 with the updated task or in 404, never anything else,
\* and the table holds no row or one row of that id.
C8_UpdateRacingDeleteOutcome ==
    /\ \A i \in Callers :
          (reqs[i].op = "update_task" /\ reqs[i].pc = "done" /\ reqs[i].user # None)
          => reqs[i].resp.code \in UpdatedOrNotFound
    /\ Cardinality({r \in tasks : r.id = RaceTask.id}) <= 1

\* The 5 fields an update writes, as the call of caller i writes them.
C9_WriteOf(i, row) ==
    /\ reqs[i].local # None
    /\ row.name = reqs[i].req.body.name
    /\ row.description = reqs[i].req.body.description
    /\ row.priority = reqs[i].req.body.priority
    /\ row.status = reqs[i].req.body.status
    /\ row.last_modified = reqs[i].local[1]

\* No row of the race's task mixes two writes: it is the row as created or
\* the whole write of one update that has run its statement, with id, owner
\* and created_on as created; and a finished update returned its own write.
C9_NoTornRow ==
    /\ \A r \in tasks :
          r.id = RaceTask.id =>
              /\ r.user_id = RaceTask.user_id
              /\ r.created_on = RaceTask.created_on
              /\ \/ r = RaceTask
                 \/ \E i \in Callers : /\ reqs[i].op = "update_task"
                                       /\ reqs[i].pc = "done"
                                       /\ C9_WriteOf(i, r)
    /\ \A i \in Callers :
          (reqs[i].op = "update_task" /\ reqs[i].pc = "done" /\ reqs[i].resp.code = 200)
          => /\ reqs[i].resp.data # None
             /\ C9_WriteOf(i, reqs[i].resp.data[1])
             /\ reqs[i].resp.data[1].id = RaceTask.id
             /\ reqs[i].resp.data[1].created_on = RaceTask.created_on

\* The update statement of caller i leaves its own whole write in the table:
\* the last writer wins.
C9_Step ==
    \A i \in Callers :
        (Continues(i, "update_task", "stamped") /\ reqs'[i].resp.code = 200)
        => \A r \in tasks' : r.id = RaceTask.id => C9_WriteOf(i, r)

\* C9: two update_task calls of the owner served at once on one task leave a
\* row whose name, description, priority, status and last_modified all come
\* from one call, the one whose statement ran last, and each call returns one
\* whole write.
C9_ConcurrentUpdatesNotTorn == []C9_NoTornRow /\ [][C9_Step]_vars

\* Two updates with different bodies both passed the existence check before
\* either wrote; both are done, and the row carries the write of the call
\* that read the clock first.
C9_Witness ==
    \E i, j \in Callers :
        /\ i # j
        /\ reqs[i].op = "update_task" /\ reqs[i].pc = "done" /\ reqs[i].resp.code = 200
        /\ reqs[j].op = "update_task" /\ reqs[j].pc = "done" /\ reqs[j].resp.code = 200
        /\ reqs[i].req.body # reqs[j].req.body
        /\ reqs[i].local[1] < reqs[j].local[1]
        /\ \E r \in tasks : C9_WriteOf(i, r)

\* The caller's rows that get_tasks is to return under a status filter.
C10_Expected(user_id, status) ==
    {r \in tasks : /\ r.user_id = user_id
                   /\ status \in {Some("done"), Some("pending")} => r.status = status[1]}

\* The answer of the handler of get_tasks against the table it reads.
C10_Step ==
    \A i \in Callers :
        Continues(i, "get_tasks", "authed") =>
            LET want == C10_Expected(reqs[i].user[1].id, reqs[i].req.status)
                resp == reqs'[i].resp
            IN  /\ resp.code = 200
                /\ resp.data # None
                /\ Len(resp.data[1]) = Cardinality(want)
                /\ {resp.data[1][k] : k \in 1..Len(resp.data[1])}
                       = {TaskRead(r) : r \in want}

\* C10: get_tasks returns exactly the caller's tasks, each once: all of them
\* when the status filter is absent or is not done/pending, and those of
\* that status otherwise.
C10_ListReturnsOwnTasks == [][C10_Step]_vars

\* A create body the service is to accept: TaskBase's constraints hold and the
\* name is not empty once trimmed.
ValidTaskInput(task) == TaskBase_valid(task) /\ strip(task.name) # <<>>

\* The insert of a create with a valid body, and the lookup of a get_task
\* for the id a create has returned.
C11_Step ==
    \A i, j \in Callers :
        /\ (Continues(i, "create_task", "stamped") /\ ValidTaskInput(reqs[i].req.task))
              => /\ reqs'[i].resp.code = 201
                 /\ reqs'[i].resp.data # None
                 /\ reqs'[i].resp.data[1].id = next_task_id
        /\ (/\ i # j
            /\ reqs[j].op = "create_task"
            /\ reqs[j].pc = "done"
            /\ reqs[j].user # None
            /\ ValidTaskInput(reqs[j].req.task)
            /\ reqs[j].resp.code = 201
            /\ Continues(i, "get_task", "authed")
            /\ reqs[i].user = reqs[j].user
            /\ reqs[i].req.task_id = reqs[j].resp.data[1].id)
              => LET input == reqs[j].req.task
                     got == reqs'[i].resp.data[1]
                 IN  /\ reqs'[i].resp.code = 200
                     /\ reqs'[i].resp.data # None
                     /\ got.id = reqs[j].resp.data[1].id
                     /\ got.name = strip(input.name)
                     /\ got.description = input.description
                     /\ got.priority = input.priority
                     /\ got.status = input.status
                     /\ got.created_on = got.last_modified
                     /\ got.created_on = reqs[j].local[1]
                     /\ got.created_on <= now
                     /\ got = reqs[j].resp.data[1]

\* C11: create_task with a valid body answers 201 with the new task, and a
\* get_task of the same user for the returned id, looked up once the create
\* is answered (the clock may have advanced; no other request is served),
\* answers 200 with a task of that id whose name is the input name stripped,
\* whose description, priority and status are the input's, and whose
\* created_on equals its last_modified, the create's reading of the clock.
C11_CreateThenGetRoundTrip == [][C11_Step]_vars

\* A task created from a name with a leading blank was read back, trimmed,
\* by the other caller after the clock had moved on from its creation.
C11_Witness ==
    \E i, j \in Callers :
        /\ reqs[j].op = "create_task"
        /\ reqs[j].pc = "done"
        /\ reqs[j].resp.code = 201
        /\ reqs[i].op = "get_task"
        /\ reqs[i].pc = "done"
        /\ reqs[i].resp.code = 200
        /\ reqs[i].resp.data # None
        /\ reqs[i].resp.data[1].name = <<"b">>
        /\ reqs[i].resp.data[1].created_on = reqs[i].resp.data[1].last_modified
        /\ now > reqs[i].resp.data[1].created_on

\* The update statement of a call that ends in 200 against the row it
\* replaces.
C12_Step ==
    \A i \in Callers :
        (Continues(i, "update_task", "stamped") /\ reqs'[i].resp.code = 200)
        => \E old \in tasks, new \in tasks' :
              /\ old.id = reqs[i].req.task_id
              /\ tasks' = (tasks \ {old}) \cup {new}
              /\ new.id = old.id
              /\ new.created_on = old.created_on
              /\ new.user_id = old.user_id
              /\ new.last_modified >= old.last_modified

\* C12: the update statement of a call that ends in 200 replaces one row, the
\* caller's row of that id, by a row of the same id, created_on and user_id
\* whose last_modified is not below the one it replaces; every other row
\* stays as it was.
C12_UpdateAdvancesLastModified == [][C12_Step]_vars

\* Every stored name is its own trimmed form and has 1 to 100 characters.
C13_NamesTrimmed ==
    \A r \in tasks :
        /\ strip(r.name) = r.name
        /\ Len(r.name) >= NameMinLen
        /\ Len(r.name) <= NameMaxLen

\* The name a create or update sends.
C13_Name(r) == IF r.op = "create_task" THEN r.req.task.name ELSE r.req.body.name

\* A create or update whose name is empty once trimmed is refused as invalid
\* input (422) when its body is validated.
C13_Step ==
    \A i \in Callers, op \in BodyOps :
        (/\ Continues(i, op, "decoded")
         /\ reqs'[i].user # None
         /\ strip(C13_Name(reqs[i])) = <<>>)
        => /\ reqs'[i].pc = "done"
           /\ reqs'[i].resp.code = 422

\* C13: after any create_task and update_task calls every stored name is
\* trimmed and has 1 to 100 characters, and a name that is empty after
\* trimming is rejected as invalid input and never stored.
C13_StoredNamesTrimmed == []C13_NamesTrimmed /\ [][C13_Step]_vars

\* The constraints the claim names: priority, status, length of description.
C14_FieldsValid(t) ==
    /\ t.priority >= 1
    /\ t.status \in {"done", "pending"}
    /\ t.description = None \/ Len(t.description[1]) <= 500

C14_StoredFieldsValid == \A r \in tasks : C14_FieldsValid(r)

\* The body a create or update sends.
C14_Body(r) == IF r.op = "create_task" THEN r.req.task ELSE r.req.body

\* No step of a create or update whose body breaks one of the constraints
\* changes the store or sends a task back, and once the caller is
\* authenticated the request ends, before the handler runs, in 422.
C14_Step ==
    \A i \in Callers, op \in BodyOps :
        (/\ Acts(i)
         /\ reqs'[i].op = op
         /\ ~C14_FieldsValid(C14_Body(reqs'[i])))
        => /\ UNCHANGED store
           /\ reqs'[i].pc \in BeforeHandler
           /\ reqs'[i].resp # None => reqs'[i].resp.data = None
           /\ reqs'[i].user # None => /\ reqs'[i].pc = "done"
                                      /\ reqs'[i].resp.code = 422

\* C14: a create_task or update_task whose priority is below 1, whose status
\* is not done or pending or whose description is longer than 500 characters
\* is answered with a validation error before the repository is touched and
\* leaves the store unchanged, so every stored task has priority >= 1, a
\* status of done or pending and a description of at most 500 characters.
C14_InvalidInputNeverStored == []C14_StoredFieldsValid /\ [][C14_Step]_vars

\* An update of an existing task of the caller with a description that is too
\* long was refused and the task is still there.
C14_Witness ==
    \E i \in Callers :
        /\ reqs[i].op = "update_task"
        /\ reqs[i].pc = "done"
        /\ reqs[i].user # None
        /\ reqs[i].resp.code = 422
        /\ reqs[i].req.body.description # None
        /\ Len(reqs[i].req.body.description[1]) > 500
        /\ \E r \in tasks : /\ r.id = reqs[i].req.task_id
                            /\ r.user_id = reqs[i].user[1].id

\* The column get_tasks sorts by for a sort_by value.
ChosenColumn(sort_by) == IF sort_by \in SortColumns THEN sort_by ELSE "priority"

\* data is ordered by the column in the direction; rows equal in the column
\* come in the order of their ids.
C15_Ordered(data, col, desc) ==
    \A i \in 1..(Len(data) - 1) :
        IF data[i][col] = data[i + 1][col] THEN data[i].id < data[i + 1].id
        ELSE IF desc THEN data[i][col] > data[i + 1][col]
        ELSE data[i][col] < data[i + 1][col]

\* The listing the handler of get_tasks answers with, for an order it knows.
C15_Step ==
    \A i \in Callers :
        (/\ Continues(i, "get_tasks", "authed")
         /\ reqs'[i].resp.code = 200
         /\ lower(reqs[i].req.order) \in KnownOrders)
        => C15_Ordered(reqs'[i].resp.data[1], ChosenColumn(reqs[i].req.sort_by),
                       lower(reqs[i].req.order) = <<"d", "e", "s", "c">>)

\* C15: the tasks get_tasks returns (for an order of asc or desc) are ordered
\* by the chosen column in the chosen direction, and tasks equal in that
\* column come in insertion (id) order, so the store determines the sequence.
C15_ListTotallyOrdered == [][C15_Step]_vars

\* The answer of the handler of get_tasks for an order it does not know.
C16_Step ==
    \A i \in Callers :
        (/\ Continues(i, "get_tasks", "authed")
         /\ lower(reqs[i].req.order) \notin KnownOrders)
        => reqs'[i].resp \in get_tasks_responses(tasks, reqs[i].user[1].id,
                                                 reqs[i].req.sort_by,
                                                 <<"d", "e", "s", "c">>,
                                                 reqs[i].req.status)

\* C16: a get_tasks whose order is neither asc nor desc after lower-casing
\* answers as the same call with order=desc answers.
C16_OrderFallsBackToDesc == [][C16_Step]_vars

\* The answer of the handler of get_tasks for a sort_by it does not allow.
C17_Step ==
    \A i \in Callers :
        (/\ Continues(i, "get_tasks", "authed")
         /\ reqs[i].req.sort_by \notin SortColumns)
        => LET resp == reqs'[i].resp
               caller == reqs[i].user[1].id
           IN  /\ resp \in get_tasks_responses(tasks, caller, "priority",
                                               reqs[i].req.order, reqs[i].req.status)
               /\ resp.code = 200
               /\ \A k \in 1..(Len(resp.data[1]) - 1) :
                     IF lower(reqs[i].req.order) = <<"d", "e", "s", "c">>
                     THEN resp.data[1][k].priority >= resp.data[1][k + 1].priority
                     ELSE resp.data[1][k].priority <= resp.data[1][k + 1].priority

\* C17: a get_tasks whose sort_by is not priority, created_on or
\* last_modified never errors and answers as the same call with
\* sort_by=priority answers, whatever the tasks table holds: with 200 and the
\* caller's tasks ordered by priority in the direction of the order value.
C17_SortByFallsBackToPriority == [][C17_Step]_vars

\* The id has been assigned and no row carries it: its task was deleted.
C18_Gone(id) == id < next_task_id /\ \A r \in tasks : r.id # id

\* Deleted ids stay without a row; the delete statement of a call answered
\* 204; the lookups for a deleted id; the listings.
C18_Step ==
    /\ \A id \in TaskIds : C18_Gone(id) => C18_Gone(id)'
    /\ \A i \in Callers :
          (Continues(i, "delete_task", "selected") /\ reqs'[i].resp.code = 204)
          => /\ tasks' = {r \in tasks : r.id # reqs[i].req.task_id}
             /\ C18_Gone(reqs[i].req.task_id)'
    /\ \A i \in Callers, op \in TaskByIdOps :
          (Continues(i, op, "authed") /\ C18_Gone(reqs[i].req.task_id))
          => /\ reqs'[i].pc = "done"
             /\ reqs'[i].resp = NotFound
             /\ tasks' = tasks
    /\ \A i \in Callers :
          (Continues(i, "get_tasks", "authed") /\ reqs'[i].resp.data # None)
          => \A k \in 1..Len(reqs'[i].resp.data[1]) :
                ~C18_Gone(reqs'[i].resp.data[1][k].id)

\* C18: the delete statement of a delete_task answered with 204 leaves no row
\* of that id and every other row as it was; an id whose task was deleted
\* never has a row again; the lookups of get, update and delete for it answer
\* 404 "Task not found" and change nothing; and no listing contains it.
C18_DeletedTaskStaysGone == [][C18_Step]_vars

\* The owner of a deleted task created another task afterwards and then asked
\* for the deleted one: 404, and the later task has another id.
C18_Witness ==
    \E i \in Callers :
        /\ reqs[i].op = "get_task"
        /\ reqs[i].pc = "done"
        /\ reqs[i].user # None
        /\ reqs[i].resp = NotFound
        /\ C18_Gone(reqs[i].req.task_id)
        /\ \E r \in tasks : /\ r.user_id = reqs[i].user[1].id
                            /\ r.id > reqs[i].req.task_id

\* An id that appears in a store against the ids the store has handed out.
C19_Step ==
    /\ \A k \in keys(database') \ keys(database) : k \notin issued.dict
    /\ \A r \in conn'.tasks :
          r.id \notin {q.id : q \in conn.tasks} => r.id \notin issued.db

\* C19: in the in-memory and the embedded-SQL store, an id that appears with a
\* create is none of the ids the store has handed out before, deleted tasks'
\* ids included.
C19_CreateAssignsFreshId == [][C19_Step]_vars

\* C20: when two delete_task calls of the owner on the one task, both let
\* through by the authorization guard, are both done, one was answered 204
\* and the other 404 "Task not found", and the task is gone.
C20_ConcurrentDeletesOneSucceeds ==
    \A i, j \in Callers :
        (/\ i # j
         /\ reqs[i].op = "delete_task" /\ reqs[i].pc = "done"
         /\ reqs[j].op = "delete_task" /\ reqs[j].pc = "done"
         /\ reqs[i].user # None
         /\ reqs[j].user # None)
        => /\ {reqs[i].resp.code, reqs[j].resp.code} = OneDeletedOneNotFound
           /\ \A k \in Callers : reqs[k].resp.code = 404 => reqs[k].resp = NotFound
           /\ \A r \in tasks : r.id # RaceTask.id

\* The answers with which an operation reports that it changed the store.
C21_ReportsMutation(op, resp) ==
    \/ op \in {"register", "create_task"} /\ resp.code = 201
    \/ op = "update_task" /\ resp.code = 200
    \/ op = "delete_task" /\ resp.code = 204

\* A step of a request other than the one that answers it with a successful
\* mutation.
C21_Step ==
    \A i \in Callers :
        (/\ Acts(i)
         /\ ~(/\ reqs'[i].pc = "done"
              /\ C21_ReportsMutation(reqs'[i].op, reqs'[i].resp)))
        => UNCHANGED store

\* C21: only the step that answers a request with a successful mutation
\* changes the users or tasks table (or their id sequences): no step of a
\* login, get_tasks or get_task does, nor any step of a register,
\* create_task, update_task or delete_task that is refused; and login stores
\* nothing for the token it issues.
C21_FailedRequestsChangeNothing == [][C21_Step]_vars

\* C22: in both terminal programs task_status(index, status) leaves the store
\* as it is when no task has the index or the task has the status already;
\* otherwise the store differs in the status of that task and in nothing
\* else (same indexes in the same order, same other fields, same counter);
\* and a second call with the same arguments changes nothing more.
C22_TaskStatusChangesOnlyStatus ==
    \A index \in CliIndexes, status \in CliStatus :
        LET d == dict_task_status(database, index, status)
            c == db_task_status(conn, index, status)
        IN  /\ Len(d) = Len(database)
            /\ \A i \in 1..Len(database) :
                  /\ d[i].key = database[i].key
                  /\ d[i].value.Name = database[i].value.Name
                  /\ d[i].value.Description = database[i].value.Description
                  /\ d[i].value.Priority = database[i].value.Priority
                  /\ d[i].value.Status =
                        IF database[i].key = index THEN status
                        ELSE database[i].value.Status
            /\ (\A i \in 1..Len(database) :
                    database[i].key = index => database[i].value.Status = status)
                  => d = database
            /\ dict_task_status(d, index, status) = d
            /\ c.sqlite_sequence = conn.sqlite_sequence
            /\ {r.id : r \in c.tasks} = {r.id : r \in conn.tasks}
            /\ Cardinality(c.tasks) = Cardinality(conn.tasks)
            /\ \A r \in conn.tasks :
                  IF r.id = index THEN [r EXCEPT !.status = status] \in c.tasks
                  ELSE r \in c.tasks
            /\ (\A r \in conn.tasks : r.id = index => r.status = status)
                  => c = conn
            /\ db_task_status(c, index, status) = c

\* Each store holds two tasks of different status, one of which ("a", created
\* incomplete) has been marked complete by task_status.
C22_Witness ==
    /\ \E i, j \in 1..Len(database) :
          /\ database[i].value.Name = "a"
          /\ database[i].value.Status = "complete"
          /\ database[j].value.Status = "incomplete"
    /\ \E r, q \in conn.tasks :
          /\ r.name = "a"
          /\ r.status = "complete"
          /\ q.status = "incomplete"

====
